---- MODULE Spec2Model ----
(***************************************************************************)
(* Schedule tree matcher (reductionUpdates, isSingleReductionWithin) and   *)
(* the loop iterator name generator (Codegen::makeLoopIterators) of        *)
(* TensorComprehensions, as state machines.                                *)
(*                                                                         *)
(* A statement instance is a pair <<id, coordinate>>; an isl::union_set is *)
(* a finite set of instances and an isl::union_map a finite set of pairs.  *)
(* A Halide statement is a handle into an arena of expression nodes, so    *)
(* that two handles can be told apart (same_as) although the nodes they    *)
(* name have equal contents.                                               *)
(***************************************************************************)
EXTENDS Integers, Sequences, FiniteSets, TLC

\* ------------------------------------------------------------------ bounds
\* instance coordinates of a statement are 1..MaxCoord
MaxCoord == 2
\* the reduction catalog holds at most MaxReductions entries
MaxReductions == 2
\* the body reduction relation holds at most MaxRel pairs
MaxRel == 2
\* makeLoopIterators is called with n in -NegN..MaxN
MaxN == 11
NegN == 1
\* number of makeLoopIterators calls on one context
MaxCalls == 2

VARIABLES
    pc,            \* position of the operation under way
    scop,          \* [statements, reductions, body]: the Scop handed in
    domain,        \* isl::union_set domain
    todo,          \* components of domain foreach_set has not visited yet
    order,         \* tuple ids in the order foreach_set visited them
    update,        \* the accumulator of reductionUpdates
    result,        \* value returned by the operation (NoResult before)
    prefix,        \* isl::multi_union_pw_aff prefix
    ctx,           \* identifiers interned in the isl::ctx
    n,             \* makeLoopIterators: requested count
    namePrefix,    \* makeLoopIterators: prefix string
    i,             \* makeLoopIterators: loop counter
    loopIterators, \* makeLoopIterators: the vector being filled
    returned       \* results of the completed makeLoopIterators calls

matcherVars == <<scop, domain, todo, order, update, prefix>>
codegenVars == <<ctx, n, namePrefix, i, loopIterators, returned>>
vars == <<pc, result, matcherVars, codegenVars>>

NoResult == "NoResult"

\* --------------------------------------------------------- Halide statements
\* statement identifiers, in the order isl keeps them
IdOrder == <<"S", "T">>
Ids == {IdOrder[k] : k \in 1..Len(IdOrder)}
Coord == 1..MaxCoord
Instances == Ids \X Coord

\* The expression arena. Each node is a Provide; value0 is provide->values[0],
\* given by its node kind and, for a Call, the kinds of its arguments.
\* Nodes 1 and 2 are distinct nodes of equal contents. Every statement is a
\* Provide with a value and every Call has an argument: isSupportedReduction
\* dereferences provide, values[0] and args[0] without a test.
Arena ==
    << [kind |-> "Call", args |-> <<"Add">>],
       [kind |-> "Call", args |-> <<"Add">>],
       [kind |-> "Call", args |-> <<"Mul">>],
       [kind |-> "Call", args |-> <<"Min">>],
       [kind |-> "Call", args |-> <<"Max">>],
       [kind |-> "Call", args |-> <<"Variable", "Add">>],
       [kind |-> "Add",  args |-> <<"Variable", "Variable">>] >>
Nodes == 1..Len(Arena)

\* stmt.as<T>(): non-null iff the node is of kind T
IsA(expr, kind) == expr.kind = kind

\* (mutant) any call counts, whatever its first argument
isSupportedReductionAnyCall(stmt) == IsA(Arena[stmt], "Call")

\* provide->values[0].as<Call>() && call->args[0].as<Add>()
isSupportedReduction(stmt) ==
    LET value0 == Arena[stmt]
    IN  IsA(value0, "Call") /\ value0.args[1] = "Add"

\* (mutant) handles compared by the contents of their nodes
same_asContents(a, b) == Arena[a] = Arena[b]

\* IntrusivePtr::same_as: the two handles name the same node
same_as(a, b) == a = b

\* scop.halide.statements.count(id)
count(statements, id) == IF id \in DOMAIN statements THEN 1 ELSE 0

\* (mutant) an unknown id is answered "no" instead of failing the check
isReductionUpdateIdLenient(id, s) ==
    IF id \notin DOMAIN s.statements
    THEN [failed |-> FALSE, value |-> FALSE, reductionDims |-> <<>>]
    ELSE LET provideNode == s.statements[id]
             matching == {iup \in s.reductions : same_as(iup.update, provideNode)}
         IN  IF isSupportedReduction(provideNode) /\ matching # {}
             THEN [failed |-> FALSE, value |-> TRUE,
                   reductionDims |-> (CHOOSE iup \in matching : TRUE).dims]
             ELSE [failed |-> FALSE, value |-> FALSE, reductionDims |-> <<>>]

\* isReductionUpdateId: "failed" when the TC_CHECK_EQ throws, else the
\* boolean returned and the reductionDims written
isReductionUpdateId(id, s) ==
    IF count(s.statements, id) # 1
    THEN [failed |-> TRUE, value |-> FALSE, reductionDims |-> <<>>]
    ELSE LET provideNode == s.statements[id]
             matching == {iup \in s.reductions : same_as(iup.update, provideNode)}
         IN  IF ~isSupportedReduction(provideNode)
             THEN [failed |-> FALSE, value |-> FALSE, reductionDims |-> <<>>]
             ELSE IF matching # {}
             THEN [failed |-> FALSE, value |-> TRUE,
                   reductionDims |-> (CHOOSE iup \in matching : TRUE).dims]
             ELSE [failed |-> FALSE, value |-> FALSE, reductionDims |-> <<>>]

\* ------------------------------------------------------------ union sets
\* set.get_tuple_id()
get_tuple_id(set) == (CHOOSE x \in set : TRUE)[1]

\* the sets foreach_set hands to its callback: one per tuple id
Components(uset) == { {x \in uset : x[1] = id} : id \in {y[1] : y \in uset} }

\* (mutant) the whole space of b's tuple is added instead of b
uniteSpace(a, b) == a \cup {x \in Instances : \E y \in b : x[1] = y[1]}

\* (mutant) the accumulator is overwritten instead of extended
uniteOverwrite(a, b) == b

unite(a, b) == a \cup b

\* (mutant) only the first reduction update found is kept
ForeachBodyFirstOnly(acc, set, s) ==
    LET r == isReductionUpdateId(get_tuple_id(set), s)
    IN  IF r.failed THEN [failed |-> TRUE, update |-> acc]
        ELSE IF r.value /\ acc = {} THEN [failed |-> FALSE, update |-> set]
        ELSE [failed |-> FALSE, update |-> acc]

\* the callback of reductionUpdates applied to one set
ForeachBody(acc, set, s) ==
    LET r == isReductionUpdateId(get_tuple_id(set), s)
    IN  IF r.failed THEN [failed |-> TRUE, update |-> acc]
        ELSE IF r.value THEN [failed |-> FALSE, update |-> unite(acc, set)]
        ELSE [failed |-> FALSE, update |-> acc]

\* reductionUpdates as a function: the sets visited in the order of IdOrder
RECURSIVE VisitFrom(_, _, _, _)
VisitFrom(k, acc, uset, s) ==
    IF k > Len(IdOrder) THEN [failed |-> FALSE, update |-> acc]
    ELSE LET set == {x \in uset : x[1] = IdOrder[k]}
         IN  IF set = {} THEN VisitFrom(k + 1, acc, uset, s)
             ELSE LET r == ForeachBody(acc, set, s)
                  IN  IF r.failed THEN r ELSE VisitFrom(k + 1, r.update, uset, s)

reductionUpdates(uset, s) == VisitFrom(1, {}, uset, s)

\* ------------------------------------------------------------------ inputs
Statements == UNION { [R -> Nodes] : R \in SUBSET Ids }
Entries == { [update |-> u, dims |-> <<0>>] : u \in Nodes }
Catalogs == { c \in SUBSET Entries : Cardinality(c) <= MaxReductions }

NoCodegen ==
    /\ ctx = {} /\ n = 0 /\ namePrefix = <<>> /\ i = 0
    /\ loopIterators = <<>> /\ returned = <<>>

\* ------------------------------------------------------- reductionUpdates
InitUpdates ==
    /\ pc = "foreach"
    /\ scop \in { [statements |-> st, reductions |-> c, body |-> {}] :
                    st \in Statements, c \in Catalogs }
    /\ domain \in SUBSET Instances
    /\ todo = Components(domain)
    /\ order = <<>>
    /\ update = {}
    /\ result = NoResult
    /\ prefix = <<>>
    /\ NoCodegen

\* one call of the lambda given to domain.foreach_set
ForeachSet ==
    /\ pc = "foreach"
    /\ \E set \in todo :
         LET r == ForeachBody(update, set, scop)
         IN  /\ todo' = todo \ {set}
             /\ order' = Append(order, get_tuple_id(set))
             /\ update' = r.update
             /\ pc' = IF r.failed THEN "failed" ELSE "foreach"
    /\ UNCHANGED <<scop, domain, result, prefix, codegenVars>>

\* return update
ReturnUpdate ==
    /\ pc = "foreach"
    /\ todo = {}
    /\ result' = update
    /\ pc' = "returned"
    /\ UNCHANGED <<matcherVars, codegenVars>>

NextUpdates == ForeachSet \/ ReturnUpdate

SpecUpdates == InitUpdates /\ [][NextUpdates]_vars

\* ----------------------------------------------- claims on reductionUpdates
AllRegistered == \A x \in domain : x[1] \in DOMAIN scop.statements
InCatalog(node) == \E iup \in scop.reductions : iup.update = node
IdsOf(uset) == {x[1] : x \in uset}

\* C1: the result of reductionUpdates is a subset of the input domain, and
\* each per-statement component of the domain is in it whole or not at all;
\* the same holds of the accumulator at every step.
C1_Subset ==
    /\ update \subseteq domain
    /\ \A c \in Components(domain) : c \subseteq update \/ c \cap update = {}
    /\ pc = "returned" =>
         /\ result \subseteq domain
         /\ \A c \in Components(domain) : c \subseteq result \/ c \cap result = {}

\* a call on a registered domain returned part of the domain, not all of it
C1_Witness ==
    /\ pc = "returned" /\ AllRegistered
    /\ result # {} /\ result # domain
    /\ \E c \in Components(domain) : Cardinality(c) < MaxCoord /\ c \subseteq result

\* the right-hand sides the claim lists: not a call, or a call whose first
\* argument is another operator than addition
NonAddition(node) ==
    \/ Arena[node].kind # "Call"
    \/ Arena[node].args[1] \in {"Mul", "Min", "Max", "Variable"}

\* C2: no instance of a statement whose combiner is not addition is ever in
\* the accumulator or the result, catalogued or not.
C2_OperatorRestriction ==
    \A id \in DOMAIN scop.statements :
        NonAddition(scop.statements[id]) =>
            /\ id \notin IdsOf(update)
            /\ pc = "returned" => id \notin IdsOf(result)

\* a multiplication statement that is in the catalog was visited and left out
C2_Witness ==
    /\ pc = "returned" /\ result # {}
    /\ \E id \in IdsOf(domain) :
         /\ Arena[scop.statements[id]].args[1] = "Mul"
         /\ InCatalog(scop.statements[id])
         /\ id \notin IdsOf(result)

\* C3: a component is in the result iff its statement passes the
\* supported-reduction test and its node is, as a node, the update of a
\* catalog entry; otherwise none of it is in the result.
C3_IdentityMatch ==
    pc = "returned" =>
        \A c \in Components(domain) :
            LET node == scop.statements[get_tuple_id(c)]
                isUpdate == isSupportedReduction(node) /\ InCatalog(node)
            IN  /\ isUpdate => c \subseteq result
                /\ ~isUpdate => c \cap result = {}

\* a statement whose node equals a catalogued update in contents only is left
\* out, next to one that is the catalogued node
C3_Witness ==
    /\ pc = "returned"
    /\ \E a, b \in IdsOf(domain) :
         /\ scop.statements[a] = 1 /\ scop.statements[b] = 2
         /\ InCatalog(1) /\ ~InCatalog(2)
         /\ a \in IdsOf(result) /\ b \notin IdsOf(result)

\* C8: a domain with an unregistered identifier never yields a result: the
\* visit of that component fails, wherever it comes in the enumeration; a
\* domain whose identifiers are all registered never fails.
C8_UnknownIdFails ==
    /\ ~AllRegistered =>
         /\ pc # "returned" /\ result = NoResult
         /\ pc = "foreach" => \E c \in todo : get_tuple_id(c) \notin DOMAIN scop.statements
    /\ AllRegistered => pc # "failed"

\* the unknown component came last, after a reduction update was collected
C8_Witness ==
    /\ pc = "failed" /\ update # {} /\ Len(order) = 2
    /\ order[2] \notin DOMAIN scop.statements

\* C9: for every split of the domain into disjoint D1 and D2, the result for
\* the domain is the union of the results for D1 and D2.
C9_UnionOfDisjoint ==
    pc = "returned" =>
        \A D1 \in SUBSET domain :
            LET D2 == domain \ D1
            IN  result = reductionUpdates(D1, scop).update
                            \cup reductionUpdates(D2, scop).update

\* both statements are reduction updates and have two instances each, so the
\* splits include ones that cut through a statement
C9_Witness ==
    /\ pc = "returned" /\ result = domain
    /\ IdsOf(domain) = Ids
    /\ \A c \in Components(domain) : Cardinality(c) >= 2

\* C10: whatever the order of the visit, the result is the one obtained by
\* visiting the components in the order of IdOrder.
C10_OrderIndependent ==
    pc = "returned" => result = reductionUpdates(domain, scop).update

\* the visit went against IdOrder and collected both components
C10_Witness ==
    /\ pc = "returned" /\ result = domain
    /\ Len(order) = 2 /\ order[1] = IdOrder[2] /\ order[2] = IdOrder[1]

\* ------------------------------------------------ isSingleReductionWithin
\* reduction targets of the body reduction relation
Targets == {"a", "b"}

\* what a schedule prefix does to the instances of one statement: nothing (the
\* statement is outside its domain), a constant, or the instance coordinate
PrefixKinds == {"none", "zero", "coord"}

\* the isl::multi_union_pw_aff given per statement by kinds, as a function of
\* the instances it is defined on
PrefixOf(kinds) ==
    [x \in {y \in Instances : kinds[y[1]] # "none"} |->
        IF kinds[x[1]] = "zero" THEN <<0>> ELSE <<x[2]>>]

\* isl::union_map::from(multi_union_pw_aff)
from(mupa) == { <<x, mupa[x]>> : x \in DOMAIN mupa }

\* (mutant) the relation is left as it is
intersect_domainNone(umap, uset) == umap

\* union_map::intersect_domain
intersect_domain(umap, uset) == { p \in umap : p[1] \in uset }

\* union_map::apply_domain: the domain of umap sent through umap2
apply_domain(umap, umap2) ==
    { <<rm[2][2], rm[1][2]>> :
        rm \in { x \in umap \X umap2 : x[1][1] = x[2][1] } }

\* union_map::is_single_valued
is_single_valued(umap) == \A p, q \in umap : p[1] = q[1] => p[2] = q[2]

isSingleReductionWithin(dom, pre, s) ==
    LET reductions == intersect_domain(s.body, dom)
        prefixMap == from(pre)
        prefixToReduction == apply_domain(reductions, prefixMap)
    IN  is_single_valued(prefixToReduction)

BodyReductions == { r \in SUBSET (Instances \X Targets) : Cardinality(r) <= MaxRel }

InitSingle ==
    /\ pc = "call"
    /\ scop \in { [statements |-> <<>>, reductions |-> {}, body |-> r] :
                    r \in BodyReductions }
    /\ domain \in SUBSET Instances
    /\ prefix \in { PrefixOf(kinds) : kinds \in [Ids -> PrefixKinds] }
    /\ todo = {} /\ order = <<>> /\ update = {}
    /\ result = NoResult
    /\ NoCodegen

IsSingleReductionWithin ==
    /\ pc = "call"
    /\ result' = isSingleReductionWithin(domain, prefix, scop)
    /\ pc' = "returned"
    /\ UNCHANGED <<matcherVars, codegenVars>>

NextSingle == IsSingleReductionWithin

SpecSingle == InitSingle /\ [][NextSingle]_vars

\* C4: isSingleReductionWithin answers true iff no two reduction instances of
\* the domain with the same prefix value (the same instance included) have
\* different reduction targets.
C4_SingleValued ==
    pc = "returned" =>
        (result <=>
            \A p, q \in scop.body :
                ( /\ p[1] \in domain /\ q[1] \in domain
                  /\ p[1] \in DOMAIN prefix /\ q[1] \in DOMAIN prefix
                  /\ prefix[p[1]] = prefix[q[1]] ) => p[2] = q[2])

\* two instances of the domain share a prefix value and differ in target: false
C4_WitnessFalse ==
    /\ pc = "returned" /\ result = FALSE
    /\ \E p, q \in scop.body :
         /\ p[1] # q[1] /\ p[2] # q[2]
         /\ p[1] \in domain /\ q[1] \in domain
         /\ p[1] \in DOMAIN prefix /\ q[1] \in DOMAIN prefix
         /\ prefix[p[1]] = prefix[q[1]]

\* ------------------------------------------------ Codegen::makeLoopIterators
\* std::string values are sequences of characters
Prefixes == { <<>>, <<"i">>, <<"i", "1">> }

DigitChars == <<"0", "1", "2", "3", "4", "5", "6", "7", "8", "9">>

\* (mutant) only the last digit is written
RECURSIVE ToDecimalLastDigit(_)
ToDecimalLastDigit(k) ==
    IF k < 0 THEN <<"-">> \o ToDecimalLastDigit(-k)
    ELSE <<DigitChars[(k % 10) + 1]>>

\* std::ostream << int: the decimal digits, most significant first
RECURSIVE ToDecimal(_)
ToDecimal(k) ==
    IF k < 0 THEN <<"-">> \o ToDecimal(-k)
    ELSE IF k < 10 THEN <<DigitChars[k + 1]>>
    ELSE ToDecimal(k \div 10) \o <<DigitChars[(k % 10) + 1]>>

\* (mutant) the name also carries the number of identifiers of the context
IteratorNameCounted(c, pre, k) == pre \o ToDecimal(k + Cardinality(c))

\* ss << prefix << i; ss.str()
IteratorName(c, pre, k) == pre \o ToDecimal(k)

\* isl::id(ctx, name): the identifier of that name without user pointer; isl
\* keeps one identifier per name and user pointer in a context
IslId(c, name) == [name |-> name, user |-> "NULL"]

\* (mutant) the loop runs until i equals n
LoopConditionNotEqual(k, bound) == k # bound

\* i < n
LoopCondition(k, bound) == k < bound

InitCodegen ==
    /\ pc = "idle"
    /\ ctx = {} /\ n = 0 /\ namePrefix = <<>> /\ i = 0
    /\ loopIterators = <<>> /\ returned = <<>>
    /\ result = NoResult
    /\ scop = [statements |-> <<>>, reductions |-> {}, body |-> {}]
    /\ domain = {} /\ todo = {} /\ order = <<>> /\ update = {} /\ prefix = <<>>

\* makeLoopIterators(ctx, requested, pre) is entered: int i = 0, empty vector
Call ==
    /\ pc = "idle"
    /\ Len(returned) < MaxCalls
    /\ \E requested \in (0 - NegN)..MaxN, pre \in Prefixes :
         /\ n' = requested
         /\ namePrefix' = pre
    /\ i' = 0
    /\ loopIterators' = <<>>
    /\ pc' = "loop"
    /\ UNCHANGED <<result, ctx, returned, matcherVars>>

\* one iteration of the for loop
LoopBody ==
    /\ pc = "loop"
    /\ LoopCondition(i, n)
    /\ LET id == IslId(ctx, IteratorName(ctx, namePrefix, i))
       IN  /\ loopIterators' = Append(loopIterators, id)
           /\ ctx' = ctx \cup {id}
    /\ i' = i + 1
    /\ UNCHANGED <<pc, result, n, namePrefix, returned, matcherVars>>

\* the loop is left and the isl::list built from the vector is returned
ReturnList ==
    /\ pc = "loop"
    /\ ~LoopCondition(i, n)
    /\ result' = loopIterators
    /\ returned' = Append(returned,
                          [n |-> n, prefix |-> namePrefix, list |-> loopIterators])
    /\ pc' = "idle"
    /\ UNCHANGED <<ctx, n, namePrefix, i, loopIterators, matcherVars>>

NextCodegen == Call \/ LoopBody \/ ReturnList

SpecCodegen == InitCodegen /\ [][NextCodegen]_vars

\* ------------------------------------------------ claims on makeLoopIterators
DigitValue(ch) == CHOOSE d \in 0..9 : DigitChars[d + 1] = ch
IsDigit(ch) == \E d \in 0..9 : DigitChars[d + 1] = ch

\* the number a digit string denotes
RECURSIVE ParseDecimal(_)
ParseDecimal(str) ==
    IF str = <<>> THEN 0
    ELSE 10 * ParseDecimal(SubSeq(str, 1, Len(str) - 1)) + DigitValue(str[Len(str)])

\* name is pre followed by the decimal numeral of k, without leading zeros
NamedBy(name, pre, k) ==
    /\ Len(name) > Len(pre)
    /\ SubSeq(name, 1, Len(pre)) = pre
    /\ LET digits == SubSeq(name, Len(pre) + 1, Len(name))
       IN  /\ \A j \in 1..Len(digits) : IsDigit(digits[j])
           /\ Len(digits) > 1 => digits[1] # "0"
           /\ ParseDecimal(digits) = k

\* C5: a call with n >= 0 returns exactly n identifiers, the k-th named
\* prefix followed by the decimal k, pairwise distinct (read between calls,
\* when returned holds the result of every call made).
C5_Names ==
    pc = "idle" => \A c \in 1..Len(returned) :
        LET r == returned[c]
        IN  r.n >= 0 =>
              /\ Len(r.list) = r.n
              /\ \A k \in 0..(r.n - 1) : NamedBy(r.list[k + 1].name, r.prefix, k)
              /\ \A j, k \in 1..Len(r.list) : j # k => r.list[j] # r.list[k]

\* a call returned more than ten identifiers, so two-digit numerals occur
C5_Witness ==
    \E c \in 1..Len(returned) :
        /\ returned[c].n > 10
        /\ returned[c].list[11].name = returned[c].prefix \o <<"1", "0">>

\* C6 as stated: a call with a negative count never returns a sequence.
C6_NegativeFails ==
    \A c \in 1..Len(returned) : returned[c].n >= 0

\* C6 amended: a call with a negative count runs no iteration and returns
\* the empty sequence.
C6_NegativeEmpty ==
    /\ (pc = "loop" /\ n < 0) => loopIterators = <<>>
    /\ \A c \in 1..Len(returned) : returned[c].n < 0 => returned[c].list = <<>>

\* a call with a negative count has returned
C6_Witness ==
    /\ pc = "idle" /\ returned # <<>>
    /\ returned[Len(returned)].n < 0
    /\ result = <<>>

\* C7 as stated: no identifier returned by a call equals an identifier
\* returned by an earlier call on the same context.
C7_Fresh ==
    \A a, b \in 1..Len(returned) :
        a < b => \A j \in 1..Len(returned[a].list), k \in 1..Len(returned[b].list) :
                    returned[a].list[j] # returned[b].list[k]

\* C7 amended: identifiers are determined by their names. Two calls with the
\* same prefix and count return equal sequences, and identifiers returned by
\* any two calls are equal iff their names are (read between calls).
C7_NameDetermined ==
    pc = "idle" => \A a, b \in 1..Len(returned) :
        /\ (returned[a].prefix = returned[b].prefix /\ returned[a].n = returned[b].n)
              => returned[a].list = returned[b].list
        /\ \A j \in 1..Len(returned[a].list), k \in 1..Len(returned[b].list) :
              returned[a].list[j] = returned[b].list[k]
                 <=> returned[a].list[j].name = returned[b].list[k].name

\* two calls with the same prefix and count have returned identifiers
C7_Witness ==
    \E a, b \in 1..Len(returned) :
        /\ a < b
        /\ returned[a].prefix = returned[b].prefix
        /\ returned[a].n = returned[b].n
        /\ returned[a].n >= 2

====
